---- MODULE Spec2Model ----
(***************************************************************************)
(* Kubernetes MCP server (MCP/kubernetes-server/src/index.ts): the tool    *)
(* catalog, the CallTool dispatcher and the thirteen tool handlers.        *)
(*                                                                         *)
(* A handler is an async function with one await (the upstream call).  On  *)
(* the JavaScript event loop it runs in two atomic pieces: from the        *)
(* request up to the await (CallTool), and from the settling of the        *)
(* upstream promise to the return (UpstreamSettles).                       *)
(***************************************************************************)
EXTENDS Integers, Sequences, FiniteSets, TLC

VARIABLES
    serving,       \* the server is connected to its transport (run())
    kc,            \* this.kc: the loaded KubeConfig
    cluster,       \* the objects stored in the Kubernetes cluster
    inv,           \* the invocations in flight, one record per transport slot
    catalogReply,  \* the last answer to a ListTools query
    anyFailed      \* some invocation has been answered with isError: true

vars == <<serving, kc, cluster, inv, catalogReply, anyFailed>>

(***************************************************************************)
(* Bounds.                                                                 *)
(***************************************************************************)
\* Invocations that may overlap in the concurrent specification.
MaxInFlight == 2
\* Items a list response of the projection specification carries at most.
MaxItems == 2

(***************************************************************************)
(* JavaScript values.  A value is a tagged record, so that values of       *)
(* different shapes can be compared.  A string is a sequence of parts: a   *)
(* literal piece of text or the JSON serialization of a value.             *)
(***************************************************************************)
U == [t |-> "undef"]
Null == [t |-> "null"]
N(n) == [t |-> "num", n |-> n]
S(s) == [t |-> "str", parts |-> <<[lit |-> s]>>]
Str(parts) == [t |-> "str", parts |-> parts]
O(r) == [t |-> "obj", o |-> r]
A(q) == [t |-> "arr", a |-> q]

\* the empty object {}
EmptyObj == [t |-> "obj", o |-> [f \in {} |-> U]]

\* undefined or null: reading a property of such a value throws a TypeError
Nullish(v) == v.t \in {"undef", "null"}

\* truthiness of a value: undefined, null and "" are falsy
Truthy(v) == /\ ~Nullish(v)
             /\ ~(v.t = "str" /\ v.parts = <<>>)

\* v.f on a value that is not nullish (a missing property is undefined)
Prop(v, f) == IF v.t = "obj" /\ f \in DOMAIN v.o THEN v.o[f] ELSE U

\* v?.f
OptProp(v, f) == IF Nullish(v) THEN U ELSE Prop(v, f)

\* JSON.stringify drops the undefined properties of an object and writes an
\* undefined array element as null
RECURSIVE JSONvalue(_)
JSONvalue(v) ==
    CASE v.t = "obj" ->
           [t |-> "obj",
            o |-> [f \in {g \in DOMAIN v.o : v.o[g].t # "undef"} |-> JSONvalue(v.o[f])]]
      [] v.t = "arr" ->
           [t |-> "arr",
            a |-> [k \in 1..Len(v.a) |->
                     IF v.a[k].t = "undef" THEN Null ELSE JSONvalue(v.a[k])]]
      [] OTHER -> v

\* JSON.stringify(v, null, 2): undefined for an undefined value, else a string
JSONstringify(v) ==
    IF v.t = "undef" THEN U ELSE Str(<<[json |-> JSONvalue(v)]>>)

\* a string is non-empty when it has a part that is not the empty literal
NonEmptyString(v) ==
    /\ v.t = "str"
    /\ \E k \in 1..Len(v.parts) :
          \/ "json" \in DOMAIN v.parts[k]
          \/ ("lit" \in DOMAIN v.parts[k] /\ v.parts[k].lit # "")

\* the literal pieces lits occur, adjacent and in order, in the string v
Contains(v, lits) ==
    /\ v.t = "str"
    /\ \E k \in 0..(Len(v.parts) - Len(lits)) :
          \A j \in 1..Len(lits) :
              /\ "lit" \in DOMAIN v.parts[k + j]
              /\ v.parts[k + j].lit = lits[j]

(***************************************************************************)
(* Argument bags.  request.params.arguments is either absent or an object  *)
(* whose fields are strings; Undefined is the absent field.                *)
(***************************************************************************)
Undefined == "<undefined>"

NoArgs == [present |-> FALSE, name |-> Undefined, namespace |-> Undefined,
           labelSelector |-> Undefined, container |-> Undefined,
           tailLines |-> Undefined]

\* args?.f
Arg(args, f) == IF args.present THEN args[f] ELSE Undefined

\* !x is false for a present, non-empty string
TruthyArg(x) == x # Undefined /\ x # ""

\* x || d
OrDefault(x, d) == IF TruthyArg(x) THEN x ELSE d

(***************************************************************************)
(* Thrown values: an Error with a message, or a value that is not an Error *)
(* (whose String() is str).  Messages are sequences of string parts.       *)
(***************************************************************************)
JsError(m) == [instanceOfError |-> TRUE, message |-> m, str |-> <<[lit |-> "Error: "]>> \o m]
NonError(s) == [instanceOfError |-> FALSE, message |-> <<>>, str |-> s]
NoErr == [instanceOfError |-> FALSE, message |-> <<>>, str |-> <<>>]

\* new McpError(ErrorCode.MethodNotFound, message): the SDK prefixes the code
McpError(m) == JsError(<<[lit |-> "MCP error -32601: "]>> \o m)

\* the TypeError of reading property f of undefined
TypeErrorReading(f) ==
    JsError(<<[lit |-> "Cannot read properties of undefined (reading '"],
              [lit |-> f], [lit |-> "')"]>>)

\* error instanceof Error ? error.message : String(error)
ErrorText(e) == IF e.instanceOfError THEN e.message ELSE e.str

(***************************************************************************)
(* Envelopes.  A success carries no isError field.                         *)
(***************************************************************************)
Success(text) == [content |-> <<[type |-> "text", text |-> text]>>]
Failure(parts) == [content |-> <<[type |-> "text", text |-> Str(parts)]>>,
                   isError |-> TRUE]
NoResult == [content |-> <<>>]

IsError(env) == "isError" \in DOMAIN env /\ env.isError = TRUE

(***************************************************************************)
(* The tool catalog: the literal returned by the ListTools handler.  A     *)
(* descriptor keeps its name and its inputSchema (property names in the    *)
(* order of the literal, required list); the description texts are left    *)
(* out.                                                                    *)
(***************************************************************************)
\* a descriptor that declares no required field
ToolNoRequired(name, props, req) ==
    [name |-> name,
     inputSchema |-> [type |-> "object", properties |-> props, required |-> <<>>]]

Tool(name, props, req) ==
    [name |-> name,
     inputSchema |-> [type |-> "object", properties |-> props, required |-> req]]

ListToolsHandler ==
    <<Tool("get_cluster_info", <<>>, <<>>),
      Tool("list_pods", <<"namespace", "labelSelector">>, <<>>),
      Tool("list_services", <<"namespace", "labelSelector">>, <<>>),
      Tool("list_deployments", <<"namespace", "labelSelector">>, <<>>),
      Tool("describe_pod", <<"name", "namespace">>, <<"name">>),
      Tool("describe_service", <<"name", "namespace">>, <<"name">>),
      Tool("describe_deployment", <<"name", "namespace">>, <<"name">>),
      Tool("get_pod_logs", <<"name", "namespace", "container", "tailLines">>, <<"name">>),
      Tool("list_namespaces", <<>>, <<>>),
      Tool("list_nodes", <<"labelSelector">>, <<>>),
      Tool("describe_node", <<"name">>, <<"name">>),
      Tool("list_configmaps", <<"namespace", "labelSelector">>, <<>>),
      Tool("describe_configmap", <<"name", "namespace">>, <<"name">>)>>

(***************************************************************************)
(* Upstream calls.  A call names the client method and carries its         *)
(* positional arguments as the handler passes them (a trailing options     *)
(* object apart).                                                          *)
(***************************************************************************)
NoOptions == [container |-> Undefined, tailLines |-> Undefined]
Call(api, method, args) ==
    [api |-> api, method |-> method, args |-> args, options |-> NoOptions]
\* a call whose last argument is an options object
CallWithOptions(api, method, args, options) ==
    [api |-> api, method |-> method, args |-> args, options |-> options]
NoCall == [api |-> "", method |-> "", args |-> <<>>, options |-> NoOptions]

(***************************************************************************)
(* What a piece of a handler does: it returns an envelope, it awaits an    *)
(* upstream call, or it throws.  stages lists the stages of the            *)
(* invocation the piece went through.                                      *)
(***************************************************************************)
Return(env, stages) ==
    [kind |-> "return", env |-> env, call |-> NoCall, err |-> NoErr, stages |-> stages]
Await(call, stages) ==
    [kind |-> "await", env |-> NoResult, call |-> call, err |-> NoErr, stages |-> stages]
Throw(err, stages) ==
    [kind |-> "throw", env |-> NoResult, call |-> NoCall, err |-> err, stages |-> stages]

(***************************************************************************)
(* The handlers up to their await.                                         *)
(***************************************************************************)
getClusterInfo ==
    Await(Call("core", "getAPIResources", <<>>), <<"Validate", "Invoke">>)

listPods(args) ==
    LET namespace == OrDefault(Arg(args, "namespace"), "default")
    IN  Await(Call("core", "listNamespacedPod", <<namespace>>),
              <<"Validate", "Invoke">>)

\* listServices passing the namespace argument as it came
listServicesNoDefault(args) ==
    LET namespace == Arg(args, "namespace")
        labelSelector == Arg(args, "labelSelector")
    IN  Await(Call("core", "listNamespacedService",
                   <<namespace, Undefined, labelSelector>>),
              <<"Validate", "Invoke">>)

listServices(args) ==
    LET namespace == OrDefault(Arg(args, "namespace"), "default")
        labelSelector == Arg(args, "labelSelector")
    IN  Await(Call("core", "listNamespacedService",
                   <<namespace, Undefined, labelSelector>>),
              <<"Validate", "Invoke">>)

listDeployments(args) ==
    LET namespace == OrDefault(Arg(args, "namespace"), "default")
        labelSelector == Arg(args, "labelSelector")
    IN  Await(Call("apps", "listNamespacedDeployment",
                   <<namespace, Undefined, labelSelector>>),
              <<"Validate", "Invoke">>)

\* describePod calling the delete method of the client
describePodDeletes(args) ==
    IF ~TruthyArg(Arg(args, "name"))
    THEN Return(Failure(<<[lit |-> "Error: "], [lit |-> "Pod"],
                          [lit |-> " name is required"]>>),
                <<"Validate", "Envelope">>)
    ELSE LET namespace == OrDefault(args.namespace, "default")
         IN  Await(Call("core", "deleteNamespacedPod", <<args.name, namespace>>),
                   <<"Validate", "Invoke">>)

describePod(args) ==
    IF ~TruthyArg(Arg(args, "name"))
    THEN Return(Failure(<<[lit |-> "Error: "], [lit |-> "Pod"],
                          [lit |-> " name is required"]>>),
                <<"Validate", "Envelope">>)
    ELSE LET namespace == OrDefault(args.namespace, "default")
         IN  Await(Call("core", "readNamespacedPod", <<args.name, namespace>>),
                   <<"Validate", "Invoke">>)

\* describeService whose name check does not return
describeServiceFallThrough(args) ==
    LET namespace == OrDefault(Arg(args, "namespace"), "default")
    IN  Await(Call("core", "readNamespacedService", <<Arg(args, "name"), namespace>>),
              <<"Validate", "Invoke">>)

describeService(args) ==
    IF ~TruthyArg(Arg(args, "name"))
    THEN Return(Failure(<<[lit |-> "Error: "], [lit |-> "Service"],
                          [lit |-> " name is required"]>>),
                <<"Validate", "Envelope">>)
    ELSE LET namespace == OrDefault(args.namespace, "default")
         IN  Await(Call("core", "readNamespacedService", <<args.name, namespace>>),
                   <<"Validate", "Invoke">>)

describeDeployment(args) ==
    IF ~TruthyArg(Arg(args, "name"))
    THEN Return(Failure(<<[lit |-> "Error: "], [lit |-> "Deployment"],
                          [lit |-> " name is required"]>>),
                <<"Validate", "Envelope">>)
    ELSE LET namespace == OrDefault(args.namespace, "default")
         IN  Await(Call("apps", "readNamespacedDeployment", <<args.name, namespace>>),
                   <<"Validate", "Invoke">>)

describeConfigMap(args) ==
    IF ~TruthyArg(Arg(args, "name"))
    THEN Return(Failure(<<[lit |-> "Error: "], [lit |-> "ConfigMap"],
                          [lit |-> " name is required"]>>),
                <<"Validate", "Envelope">>)
    ELSE LET namespace == OrDefault(args.namespace, "default")
         IN  Await(Call("core", "readNamespacedConfigMap", <<args.name, namespace>>),
                   <<"Validate", "Invoke">>)

getPodLogs(args) ==
    IF ~TruthyArg(Arg(args, "name"))
    THEN Return(Failure(<<[lit |-> "Error: "], [lit |-> "Pod"],
                          [lit |-> " name is required"]>>),
                <<"Validate", "Envelope">>)
    ELSE LET namespace == OrDefault(args.namespace, "default")
             container == args.container
             tailLines == args.tailLines
         IN  Await(CallWithOptions("core", "readNamespacedPodLog",
                                   <<args.name, namespace>>,
                                   [container |-> container, tailLines |-> tailLines]),
                   <<"Validate", "Invoke">>)

listNamespaces ==
    Await(Call("core", "listNamespace", <<>>), <<"Validate", "Invoke">>)

listNodes(args) ==
    LET labelSelector == Arg(args, "labelSelector")
    IN  Await(Call("core", "listNode", <<Undefined, labelSelector>>),
              <<"Validate", "Invoke">>)

\* describeNode with the name tested against undefined only
describeNodeUndefinedOnly(args) ==
    IF Arg(args, "name") = Undefined
    THEN Return(Failure(<<[lit |-> "Error: "], [lit |-> "Node"],
                          [lit |-> " name is required"]>>),
                <<"Validate", "Envelope">>)
    ELSE Await(Call("core", "readNode", <<args.name>>), <<"Validate", "Invoke">>)

describeNode(args) ==
    IF ~TruthyArg(Arg(args, "name"))
    THEN Return(Failure(<<[lit |-> "Error: "], [lit |-> "Node"],
                          [lit |-> " name is required"]>>),
                <<"Validate", "Envelope">>)
    ELSE Await(Call("core", "readNode", <<args.name>>), <<"Validate", "Invoke">>)

listConfigMaps(args) ==
    LET namespace == OrDefault(Arg(args, "namespace"), "default")
        labelSelector == Arg(args, "labelSelector")
    IN  Await(Call("core", "listNamespacedConfigMap",
                   <<namespace, Undefined, labelSelector>>),
              <<"Validate", "Invoke">>)

(***************************************************************************)
(* The KubeConfig.  getCluster finds a cluster by name and returns null    *)
(* when there is none of that name; the handlers pass it the name of the   *)
(* current context.                                                        *)
(***************************************************************************)
KubeConfigs ==
    {[currentContext |-> "minikube",
      clusters |-> <<[name |-> "minikube", server |-> "https://192.168.49.2:8443"]>>],
     [currentContext |-> "minikube",
      clusters |-> <<[name |-> "dev", server |-> "https://10.0.0.1:6443"]>>]}

getCurrentContext(k) == k.currentContext

getCluster(k, name) ==
    IF \E j \in 1..Len(k.clusters) : k.clusters[j].name = name
    THEN LET j == CHOOSE j \in 1..Len(k.clusters) :
                      /\ k.clusters[j].name = name
                      /\ \A h \in 1..(j - 1) : k.clusters[h].name # name
         IN  O([name |-> S(k.clusters[j].name), server |-> S(k.clusters[j].server)])
    ELSE Null

\* `${v}` in a template literal
TemplatePart(v) ==
    CASE v.t = "str" -> v.parts
      [] v.t = "undef" -> <<[lit |-> "undefined"]>>
      [] v.t = "null" -> <<[lit |-> "null"]>>
      [] OTHER -> <<[lit |-> "[object Object]"]>>

(***************************************************************************)
(* The cluster: the stored objects, in the order the API server lists      *)
(* them.                                                                   *)
(***************************************************************************)
Meta(name, namespace) ==
    O([name |-> S(name), namespace |-> S(namespace),
       creationTimestamp |-> S("2024-01-01T00:00:00Z")])

PodWeb ==
    O([kind |-> S("Pod"), metadata |-> Meta("web", "default"),
       spec |-> O([nodeName |-> S("minikube")]),
       status |-> O([phase |-> S("Running"), podIP |-> S("10.244.0.5")])])

PodProd ==
    O([kind |-> S("Pod"), metadata |-> Meta("web", "prod"),
       spec |-> O([nodeName |-> S("minikube")]),
       status |-> O([phase |-> S("Pending")])])

SvcWeb ==
    O([kind |-> S("Service"), metadata |-> Meta("web", "default"),
       spec |-> O([type |-> S("ClusterIP"), clusterIP |-> S("10.96.0.10"),
                   ports |-> A(<<O([port |-> N(80)])>>),
                   selector |-> O([app |-> S("web")])])])

DeployWeb ==
    O([kind |-> S("Deployment"), metadata |-> Meta("web", "default"),
       spec |-> O([replicas |-> N(2),
                   selector |-> O([matchLabels |-> O([app |-> S("web")])])]),
       status |-> O([availableReplicas |-> N(1), readyReplicas |-> N(1)])])

CmWeb ==
    O([kind |-> S("ConfigMap"), metadata |-> Meta("web", "prod"),
       data |-> O([url |-> S("http://db"), password |-> S("hunter2")])])

NodeMinikube ==
    O([kind |-> S("Node"),
       metadata |-> O([name |-> S("minikube"),
                       creationTimestamp |-> S("2024-01-01T00:00:00Z"),
                       labels |-> O([k \in {"node-role.kubernetes.io/control-plane",
                                             "kubernetes.io/hostname"} |-> S("")])]),
       status |-> O([conditions |-> A(<<O([type |-> S("MemoryPressure"), status |-> S("False")]),
                                        O([type |-> S("Ready"), status |-> S("True")])>>),
                     nodeInfo |-> O([kubeletVersion |-> S("v1.28.3"),
                                     osImage |-> S("Ubuntu 22.04"),
                                     kernelVersion |-> S("5.15.0")])])])

NsDefault ==
    O([kind |-> S("Namespace"),
       metadata |-> O([name |-> S("default"),
                       creationTimestamp |-> S("2024-01-01T00:00:00Z")]),
       status |-> O([phase |-> S("Active")])])

Clusters ==
    {<<>>,
     <<PodWeb, PodProd, SvcWeb, DeployWeb, CmWeb, NodeMinikube, NsDefault>>}

(***************************************************************************)
(* The Kubernetes client (@kubernetes/client-node).  A method either       *)
(* rejects with a thrown value or resolves with a response.  The response  *)
(* of a read or list is the API object, wrapped as {response, body} by the *)
(* 0.x client and returned directly by the 1.x client.                     *)
(***************************************************************************)
ListMethods ==
    {"listNamespacedPod", "listNamespacedService", "listNamespacedDeployment",
     "listNamespace", "listNode", "listNamespacedConfigMap"}
ReadMethods ==
    {"readNamespacedPod", "readNamespacedService", "readNamespacedDeployment",
     "readNode", "readNamespacedConfigMap"}
NamespacedMethods ==
    {"listNamespacedPod", "listNamespacedService", "listNamespacedDeployment",
     "listNamespacedConfigMap", "readNamespacedPod", "readNamespacedService",
     "readNamespacedDeployment", "readNamespacedConfigMap", "readNamespacedPodLog",
     "deleteNamespacedPod"}
\* the methods of the client that only read the cluster
ReadOnlyMethods ==
    ListMethods \cup ReadMethods \cup {"getAPIResources", "readNamespacedPodLog"}
\* a method of the client that writes the cluster
DeleteMethods == {"deleteNamespacedPod"}

KindOf(method) ==
    CASE method \in {"listNamespacedPod", "readNamespacedPod",
                     "readNamespacedPodLog", "deleteNamespacedPod"} -> "Pod"
      [] method \in {"listNamespacedService", "readNamespacedService"} -> "Service"
      [] method \in {"listNamespacedDeployment", "readNamespacedDeployment"} -> "Deployment"
      [] method \in {"listNamespacedConfigMap", "readNamespacedConfigMap"} -> "ConfigMap"
      [] method \in {"listNode", "readNode"} -> "Node"
      [] method = "listNamespace" -> "Namespace"
      [] OTHER -> ""

\* the namespace argument of a call of a namespaced method
CallNamespace(call) ==
    IF call.method \in ListMethods THEN call.args[1] ELSE call.args[2]

\* the objects of the cluster a call addresses
Addressed(call, cl, obj) ==
    /\ Prop(obj, "kind") = S(KindOf(call.method))
    /\ call.method \in NamespacedMethods
          => Prop(Prop(obj, "metadata"), "namespace") = S(CallNamespace(call))
    /\ call.method \notin ListMethods
          => Prop(Prop(obj, "metadata"), "name") = S(call.args[1])

Selected(call, cl) == SelectSeq(cl, LAMBDA obj : Addressed(call, cl, obj))

\* the API object a call returns when the API server answers it
ApiObject(call, cl) ==
    CASE call.method = "getAPIResources" ->
           O([kind |-> S("APIResourceList"), groupVersion |-> S("v1"),
              resources |-> A(<<O([name |-> S("pods"), kind |-> S("Pod")])>>)])
      [] call.method \in ListMethods ->
           O([kind |-> S("List"), items |-> A(Selected(call, cl))])
      [] call.method = "readNamespacedPodLog" -> S("server started")
      [] call.method \in DeleteMethods -> O([kind |-> S("Status"), status |-> S("Success")])
      [] OTHER -> Selected(call, cl)[1]

\* the API server has an answer: lists and metadata always, reads when the
\* object exists
Answerable(call, cl) ==
    call.method \in ReadMethods \cup {"readNamespacedPodLog"} => Selected(call, cl) # <<>>

ErrConnRefused == JsError(<<[lit |-> "connect ECONNREFUSED 192.168.49.2:8443"]>>)
ErrHttp == JsError(<<[lit |-> "HTTP request failed"]>>)
ErrNoMessage == JsError(<<>>)
ThrownString == NonError(<<[lit |-> "socket hang up"]>>)

Rejected(e) == [kind |-> "reject", value |-> U, err |-> e]
Resolved(v) == [kind |-> "resolve", value |-> v, err |-> NoErr]
NoOutcome == [kind |-> "none", value |-> U, err |-> NoErr]

AllErrors == {ErrConnRefused, ErrHttp, ErrNoMessage, ThrownString}
AllShapes == {"wrapped", "direct", "none"}

\* the ways an upstream call can settle, among the thrown values errs and
\* the response shapes shapes
UpstreamOutcomes(call, cl, errs, shapes) ==
    {Rejected(e) : e \in errs}
    \cup {Resolved(U) : x \in {"none"} \cap shapes}
    \cup (IF Answerable(call, cl)
          THEN {Resolved(O([response |-> EmptyObj, body |-> ApiObject(call, cl)])) :
                    x \in {"wrapped"} \cap shapes}
               \cup {Resolved(ApiObject(call, cl)) : x \in {"direct"} \cap shapes}
          ELSE {})

\* what a call does to the cluster when the API server executes it
ApiEffect(call, cl) ==
    IF call.method \in DeleteMethods
    THEN SelectSeq(cl, LAMBDA obj : ~Addressed(call, cl, obj))
    ELSE cl

(***************************************************************************)
(* The handlers from the settling of their upstream call.                  *)
(***************************************************************************)
\* a catch block that returns the text of the thrown value alone
CatchFailureBare(doing, e) == Failure(ErrorText(e))

\* the catch block shared in shape by the handlers: `Error <doing>: <text>`
CatchFailure(doing, e) ==
    Failure(<<[lit |-> "Error "], [lit |-> doing], [lit |-> ": "]>> \o ErrorText(e))

\* response.body.items.map(...): the value mapped, or the TypeError thrown
\* on the way to it
bodyItems(response) ==
    LET body == Prop(response, "body")
        items == Prop(body, "items")
    IN  IF Nullish(response) THEN [ok |-> FALSE, items |-> U, err |-> TypeErrorReading("body")]
        ELSE IF Nullish(body) THEN [ok |-> FALSE, items |-> U, err |-> TypeErrorReading("items")]
        ELSE IF Nullish(items) THEN [ok |-> FALSE, items |-> U, err |-> TypeErrorReading("map")]
        ELSE IF items.t # "arr"
             THEN [ok |-> FALSE, items |-> U,
                   err |-> JsError(<<[lit |-> "response.body.items.map is not a function"]>>)]
        ELSE IF \E k \in 1..Len(items.a) : Nullish(items.a[k])
             THEN [ok |-> FALSE, items |-> U, err |-> TypeErrorReading("metadata")]
        ELSE [ok |-> TRUE, items |-> items, err |-> NoErr]

\* getClusterInfo calling the client again when the call rejects
getClusterInfoSettledRetry(k, o) ==
    IF o.kind = "reject"
    THEN Await(Call("core", "getAPIResources", <<>>), <<"Invoke">>)
    ELSE LET versionInfo == o.value
             currentContext == getCurrentContext(k)
             clusterInfo == getCluster(k, currentContext)
         IN  IF Nullish(versionInfo)
             THEN Return(Failure(<<[lit |-> "Error getting cluster info: "]>>
                                 \o ErrorText(TypeErrorReading("resources"))),
                         <<"Project", "Envelope">>)
             ELSE Return(Success(JSONstringify(
                             O([currentContext |-> S(currentContext),
                                clusterInfo |-> clusterInfo,
                                apiResources |-> Prop(versionInfo, "resources"),
                                groupVersion |-> Prop(versionInfo, "groupVersion")]))),
                         <<"Project", "Envelope">>)

getClusterInfoSettled(k, o) ==
    IF o.kind = "reject"
    THEN Return(CatchFailure("getting cluster info", o.err), <<"Envelope">>)
    ELSE LET versionInfo == o.value
             currentContext == getCurrentContext(k)
             clusterInfo == getCluster(k, currentContext)
         IN  IF Nullish(versionInfo)
             THEN Return(CatchFailure("getting cluster info", TypeErrorReading("resources")),
                         <<"Project", "Envelope">>)
             ELSE Return(Success(JSONstringify(
                             O([currentContext |-> S(currentContext),
                                clusterInfo |-> clusterInfo,
                                apiResources |-> Prop(versionInfo, "resources"),
                                groupVersion |-> Prop(versionInfo, "groupVersion")]))),
                         <<"Project", "Envelope">>)

\* a projection that also copies the kind of the pod
podProjectionWithKind(pod) ==
    O([name |-> OptProp(Prop(pod, "metadata"), "name"),
       namespace |-> OptProp(Prop(pod, "metadata"), "namespace"),
       status |-> OptProp(Prop(pod, "status"), "phase"),
       ip |-> OptProp(Prop(pod, "status"), "podIP"),
       node |-> OptProp(Prop(pod, "spec"), "nodeName"),
       creationTimestamp |-> OptProp(Prop(pod, "metadata"), "creationTimestamp"),
       kind |-> Prop(pod, "kind")])

podProjection(pod) ==
    O([name |-> OptProp(Prop(pod, "metadata"), "name"),
       namespace |-> OptProp(Prop(pod, "metadata"), "namespace"),
       status |-> OptProp(Prop(pod, "status"), "phase"),
       ip |-> OptProp(Prop(pod, "status"), "podIP"),
       node |-> OptProp(Prop(pod, "spec"), "nodeName"),
       creationTimestamp |-> OptProp(Prop(pod, "metadata"), "creationTimestamp")])

\* the inner catch of listPods: the message names the server of the cluster
\* of the current context and does not use the thrown value
listPodsConnectionError(k) ==
    LET currentContext == getCurrentContext(k)
        clusterInfo == getCluster(k, currentContext)
    IN  Failure(<<[lit |-> "Unable to connect to the Kubernetes cluster at "]>>
                \o TemplatePart(OptProp(clusterInfo, "server"))
                \o <<[lit |-> ". This could be due to one of the following reasons: ..."],
                     [lit |-> "Please check your Kubernetes configuration and network connectivity."]>>)

listPodsSettled(k, o) ==
    IF o.kind = "reject"
    THEN Return(listPodsConnectionError(k), <<"Envelope">>)
    ELSE LET response == o.value
             found == OptProp(Prop(response, "body"), "items")
             items == IF Truthy(found) THEN found ELSE A(<<>>)
         IN  IF Nullish(response)
                \/ items.t # "arr"
                \/ \E j \in 1..Len(items.a) : Nullish(items.a[j])
             THEN Return(listPodsConnectionError(k), <<"Project", "Envelope">>)
             ELSE Return(Success(JSONstringify(A([j \in 1..Len(items.a) |-> podProjection(items.a[j])]))),
                         <<"Project", "Envelope">>)

serviceProjection(service) ==
    O([name |-> OptProp(Prop(service, "metadata"), "name"),
       namespace |-> OptProp(Prop(service, "metadata"), "namespace"),
       type |-> OptProp(Prop(service, "spec"), "type"),
       clusterIP |-> OptProp(Prop(service, "spec"), "clusterIP"),
       ports |-> OptProp(Prop(service, "spec"), "ports"),
       selector |-> OptProp(Prop(service, "spec"), "selector"),
       creationTimestamp |-> OptProp(Prop(service, "metadata"), "creationTimestamp")])

listServicesSettled(o) ==
    IF o.kind = "reject"
    THEN Return(CatchFailure("listing services", o.err), <<"Envelope">>)
    ELSE LET got == bodyItems(o.value)
         IN  IF ~got.ok
             THEN Return(CatchFailure("listing services", got.err), <<"Project", "Envelope">>)
             ELSE Return(Success(JSONstringify(A([j \in 1..Len(got.items.a) |-> serviceProjection(got.items.a[j])]))),
                         <<"Project", "Envelope">>)

deploymentProjection(deployment) ==
    O([name |-> OptProp(Prop(deployment, "metadata"), "name"),
       namespace |-> OptProp(Prop(deployment, "metadata"), "namespace"),
       replicas |-> O([desired |-> OptProp(Prop(deployment, "spec"), "replicas"),
                       available |-> OptProp(Prop(deployment, "status"), "availableReplicas"),
                       ready |-> OptProp(Prop(deployment, "status"), "readyReplicas")]),
       selector |-> OptProp(Prop(deployment, "spec"), "selector"),
       creationTimestamp |-> OptProp(Prop(deployment, "metadata"), "creationTimestamp")])

listDeploymentsSettled(o) ==
    IF o.kind = "reject"
    THEN Return(CatchFailure("listing deployments", o.err), <<"Envelope">>)
    ELSE LET got == bodyItems(o.value)
         IN  IF ~got.ok
             THEN Return(CatchFailure("listing deployments", got.err), <<"Project", "Envelope">>)
             ELSE Return(Success(JSONstringify(A([j \in 1..Len(got.items.a) |-> deploymentProjection(got.items.a[j])]))),
                         <<"Project", "Envelope">>)

\* the shared tail of describePod, describeService, describeDeployment,
\* describeNode and describeConfigMap: JSON.stringify(response.body)
describeSettled(doing, o) ==
    IF o.kind = "reject"
    THEN Return(CatchFailure(doing, o.err), <<"Envelope">>)
    ELSE IF Nullish(o.value)
    THEN Return(CatchFailure(doing, TypeErrorReading("body")), <<"Project", "Envelope">>)
    ELSE Return(Success(JSONstringify(Prop(o.value, "body"))), <<"Project", "Envelope">>)

describePodSettled(o) == describeSettled("describing pod", o)
describeServiceSettled(o) == describeSettled("describing service", o)
describeDeploymentSettled(o) == describeSettled("describing deployment", o)
describeNodeSettled(o) == describeSettled("describing node", o)
describeConfigMapSettled(o) == describeSettled("describing configmap", o)

getPodLogsSettled(o) ==
    IF o.kind = "reject"
    THEN Return(CatchFailure("getting pod logs", o.err), <<"Envelope">>)
    ELSE Return(Success(o.value), <<"Project", "Envelope">>)

namespaceProjection(ns) ==
    O([name |-> OptProp(Prop(ns, "metadata"), "name"),
       status |-> OptProp(Prop(ns, "status"), "phase"),
       creationTimestamp |-> OptProp(Prop(ns, "metadata"), "creationTimestamp")])

listNamespacesSettled(o) ==
    IF o.kind = "reject"
    THEN Return(CatchFailure("listing namespaces", o.err), <<"Envelope">>)
    ELSE LET response == o.value
             body == Prop(response, "body")
             wrapped == Truthy(body) /\ Truthy(Prop(body, "items"))
             direct == Truthy(Prop(response, "items"))
             items == IF wrapped THEN Prop(body, "items") ELSE Prop(response, "items")
         IN  IF ~Truthy(response)
             THEN Return(Failure(<<[lit |-> "Error: No response from Kubernetes API"]>>),
                         <<"Envelope">>)
             ELSE IF ~wrapped /\ ~direct
             THEN Return(Success(Str(<<[lit |-> "Raw response: "]>>
                                     \o JSONstringify(response).parts)),
                         <<"Project", "Envelope">>)
             ELSE IF items.t # "arr" \/ \E j \in 1..Len(items.a) : Nullish(items.a[j])
             THEN Return(CatchFailure("listing namespaces", TypeErrorReading("metadata")),
                         <<"Project", "Envelope">>)
             ELSE Return(Success(JSONstringify(A([j \in 1..Len(items.a) |-> namespaceProjection(items.a[j])]))),
                         <<"Project", "Envelope">>)

\* the label keys in the order Object.entries yields them
LabelKeys == <<"kubernetes.io/hostname", "node-role.kubernetes.io/control-plane",
               "node-role.kubernetes.io/worker">>

\* key.startsWith('node-role.kubernetes.io/')
StartsWithRolePrefix(key) ==
    key \in {"node-role.kubernetes.io/control-plane", "node-role.kubernetes.io/worker"}

\* key.replace('node-role.kubernetes.io/', '')
StripRolePrefix(key) ==
    CASE key = "node-role.kubernetes.io/control-plane" -> "control-plane"
      [] key = "node-role.kubernetes.io/worker" -> "worker"
      [] OTHER -> key

\* conditions?.find(c => c.type === 'Ready')
findReady(conditions) ==
    IF Nullish(conditions) \/ conditions.t # "arr" THEN U
    ELSE IF \E j \in 1..Len(conditions.a) : Prop(conditions.a[j], "type") = S("Ready")
    THEN conditions.a[CHOOSE j \in 1..Len(conditions.a) :
                         /\ Prop(conditions.a[j], "type") = S("Ready")
                         /\ \A h \in 1..(j - 1) : Prop(conditions.a[h], "type") # S("Ready")]
    ELSE U

nodeProjection(node) ==
    LET found == OptProp(Prop(node, "metadata"), "labels")
        labels == IF Truthy(found) THEN found ELSE EmptyObj
        roleKeys == SelectSeq(LabelKeys,
                              LAMBDA key : labels.t = "obj" /\ key \in DOMAIN labels.o
                                           /\ StartsWithRolePrefix(key))
    IN  O([name |-> OptProp(Prop(node, "metadata"), "name"),
           status |-> IF OptProp(findReady(OptProp(Prop(node, "status"), "conditions")),
                                 "status") = S("True")
                      THEN S("Ready") ELSE S("NotReady"),
           roles |-> A([j \in 1..Len(roleKeys) |-> S(StripRolePrefix(roleKeys[j]))]),
           version |-> OptProp(OptProp(Prop(node, "status"), "nodeInfo"), "kubeletVersion"),
           osImage |-> OptProp(OptProp(Prop(node, "status"), "nodeInfo"), "osImage"),
           kernelVersion |-> OptProp(OptProp(Prop(node, "status"), "nodeInfo"), "kernelVersion"),
           creationTimestamp |-> OptProp(Prop(node, "metadata"), "creationTimestamp")])

listNodesSettled(o) ==
    IF o.kind = "reject"
    THEN Return(CatchFailure("listing nodes", o.err), <<"Envelope">>)
    ELSE LET got == bodyItems(o.value)
         IN  IF ~got.ok
             THEN Return(CatchFailure("listing nodes", got.err), <<"Project", "Envelope">>)
             ELSE Return(Success(JSONstringify(A([j \in 1..Len(got.items.a) |-> nodeProjection(got.items.a[j])]))),
                         <<"Project", "Envelope">>)

\* the keys of a configmap's data in the order Object.keys yields them
DataKeys == <<"url", "password">>

\* a projection that also copies the data of the configmap
configMapProjectionWithData(cm) ==
    LET found == Prop(cm, "data")
        data == IF Truthy(found) THEN found ELSE EmptyObj
        keys == SelectSeq(DataKeys, LAMBDA key : data.t = "obj" /\ key \in DOMAIN data.o)
    IN  O([name |-> OptProp(Prop(cm, "metadata"), "name"),
           namespace |-> OptProp(Prop(cm, "metadata"), "namespace"),
           dataKeys |-> A([j \in 1..Len(keys) |-> S(keys[j])]),
           data |-> found,
           creationTimestamp |-> OptProp(Prop(cm, "metadata"), "creationTimestamp")])

configMapProjection(cm) ==
    LET found == Prop(cm, "data")
        data == IF Truthy(found) THEN found ELSE EmptyObj
        keys == SelectSeq(DataKeys, LAMBDA key : data.t = "obj" /\ key \in DOMAIN data.o)
    IN  O([name |-> OptProp(Prop(cm, "metadata"), "name"),
           namespace |-> OptProp(Prop(cm, "metadata"), "namespace"),
           dataKeys |-> A([j \in 1..Len(keys) |-> S(keys[j])]),
           creationTimestamp |-> OptProp(Prop(cm, "metadata"), "creationTimestamp")])

listConfigMapsSettled(o) ==
    IF o.kind = "reject"
    THEN Return(CatchFailure("listing configmaps", o.err), <<"Envelope">>)
    ELSE LET got == bodyItems(o.value)
         IN  IF ~got.ok
             THEN Return(CatchFailure("listing configmaps", got.err), <<"Project", "Envelope">>)
             ELSE Return(Success(JSONstringify(A([j \in 1..Len(got.items.a) |-> configMapProjection(got.items.a[j])]))),
                         <<"Project", "Envelope">>)

(***************************************************************************)
(* The CallTool request handler: the switch on the tool name inside a      *)
(* try whose catch turns a thrown value into a failure envelope.           *)
(***************************************************************************)
CallToolCatch(e) == Failure(<<[lit |-> "Error: "]>> \o ErrorText(e))

\* the switch: the piece of the chosen handler up to its await
CallToolSwitch(request) ==
    LET name == request.name
        args == request.arguments
    IN  CASE name = "get_cluster_info" -> getClusterInfo
          [] name = "list_pods" -> listPods(args)
          [] name = "list_services" -> listServices(args)
          [] name = "list_deployments" -> listDeployments(args)
          [] name = "describe_pod" -> describePod(args)
          [] name = "describe_service" -> describeService(args)
          [] name = "describe_deployment" -> describeDeployment(args)
          [] name = "get_pod_logs" -> getPodLogs(args)
          [] name = "list_namespaces" -> listNamespaces
          [] name = "list_nodes" -> listNodes(args)
          [] name = "describe_node" -> describeNode(args)
          [] name = "list_configmaps" -> listConfigMaps(args)
          [] name = "describe_configmap" -> describeConfigMap(args)
          [] OTHER -> Throw(McpError(<<[lit |-> "Unknown tool: "], [lit |-> name]>>), <<>>)

\* the rest of the chosen handler once its upstream call has settled
CallToolSwitchSettled(request, k, o) ==
    LET name == request.name
    IN  CASE name = "get_cluster_info" -> getClusterInfoSettled(k, o)
          [] name = "list_pods" -> listPodsSettled(k, o)
          [] name = "list_services" -> listServicesSettled(o)
          [] name = "list_deployments" -> listDeploymentsSettled(o)
          [] name = "describe_pod" -> describePodSettled(o)
          [] name = "describe_service" -> describeServiceSettled(o)
          [] name = "describe_deployment" -> describeDeploymentSettled(o)
          [] name = "get_pod_logs" -> getPodLogsSettled(o)
          [] name = "list_namespaces" -> listNamespacesSettled(o)
          [] name = "list_nodes" -> listNodesSettled(o)
          [] name = "describe_node" -> describeNodeSettled(o)
          [] name = "list_configmaps" -> listConfigMapsSettled(o)
          [] OTHER -> describeConfigMapSettled(o)

\* the switch without the try/catch around it
TryNoCatch(step) == step

\* the try/catch around the switch
TryCatch(step) ==
    IF step.kind = "throw"
    THEN Return(CallToolCatch(step.err), step.stages \o <<"Envelope">>)
    ELSE step

CallToolHandler(request) ==
    LET step == TryCatch(CallToolSwitch(request))
    IN  [step EXCEPT !.stages = <<"Resolve">> \o @]

CallToolHandlerSettled(request, k, o) ==
    TryCatch(CallToolSwitchSettled(request, k, o))

(***************************************************************************)
(* State.                                                                  *)
(***************************************************************************)
NoRequest == [name |-> "", arguments |-> NoArgs]

IdleSlot ==
    [pc |-> "idle", request |-> NoRequest, calls |-> <<>>, stages |-> <<>>,
     outcome |-> NoOutcome, result |-> NoResult, err |-> NoErr]

\* the slot after a piece of the handler has run: it waits for the upstream
\* call it issued, holds the envelope returned, or has let a thrown value
\* escape to the transport
Stepped(slot, step) ==
    CASE step.kind = "await" ->
           [slot EXCEPT !.pc = "awaiting", !.calls = @ \o <<step.call>>,
                        !.stages = @ \o step.stages]
      [] step.kind = "return" ->
           [slot EXCEPT !.pc = "done", !.result = step.env,
                        !.stages = @ \o step.stages]
      [] OTHER ->
           [slot EXCEPT !.pc = "escaped", !.err = step.err,
                        !.stages = @ \o step.stages]

LastCall(i) == inv[i].calls[Len(inv[i].calls)]

\* the inputs: tool names (two of them outside the catalog) and argument bags
NameInputs ==
    {ListToolsHandler[j].name : j \in 1..Len(ListToolsHandler)}
    \cup {"LIST_PODS", "delete_pod"}

Bag(name, namespace) ==
    [present |-> TRUE, name |-> name, namespace |-> namespace,
     labelSelector |-> Undefined, container |-> Undefined, tailLines |-> Undefined]

\* bags that carry a label selector
SelectorBags ==
    {[Bag(Undefined, ns) EXCEPT !.labelSelector = "app=nginx"] :
         ns \in {Undefined, "prod"}}

ArgBags ==
    {NoArgs} \cup {Bag(n, ns) : n \in {Undefined, "", "web"},
                                ns \in {Undefined, "", "prod"}}
             \cup SelectorBags

Requests == {[name |-> n, arguments |-> a] : n \in NameInputs, a \in ArgBags}

\* the inputs of the concurrent specification
ConcRequests ==
    {[name |-> n, arguments |-> Bag("web", Undefined)] : n \in NameInputs}
ConcErrors == {ErrConnRefused}
ConcShapes == {"wrapped"}

Slots == 1..1
ConcSlots == 1..MaxInFlight

Init ==
    /\ serving = TRUE
    /\ kc \in KubeConfigs
    /\ cluster \in Clusters
    /\ inv = [i \in Slots |-> IdleSlot]
    /\ catalogReply = <<>>
    /\ anyFailed = FALSE

ConcInit ==
    /\ serving = TRUE
    /\ kc \in {k \in KubeConfigs : getCluster(k, getCurrentContext(k)) # Null}
    /\ cluster \in {cl \in Clusters : cl # <<>>}
    /\ inv = [i \in ConcSlots |-> IdleSlot]
    /\ catalogReply = <<>>
    /\ anyFailed = FALSE

(***************************************************************************)
(* Actions.                                                                *)
(***************************************************************************)
\* the ListTools request handler answers a catalog query
ListTools ==
    /\ serving
    /\ catalogReply' = ListToolsHandler
    /\ UNCHANGED <<serving, kc, cluster, inv, anyFailed>>

\* the transport delivers a tools/call request on slot i; the handler runs
\* up to its await or to its return
CallTool(i, request) ==
    /\ serving
    /\ inv[i].pc = "idle"
    /\ inv' = [inv EXCEPT ![i] =
                  Stepped([IdleSlot EXCEPT !.request = request],
                          CallToolHandler(request))]
    /\ UNCHANGED <<serving, kc, cluster, catalogReply, anyFailed>>

\* UpstreamSettles with a process that exits when an upstream call rejects
UpstreamSettlesExit(i, o) ==
    /\ inv[i].pc = "awaiting"
    /\ cluster' = IF o.kind = "resolve" THEN ApiEffect(LastCall(i), cluster) ELSE cluster
    /\ inv' = [inv EXCEPT ![i] =
                  Stepped([inv[i] EXCEPT !.outcome = o],
                          CallToolHandlerSettled(inv[i].request, kc, o))]
    /\ serving' = (serving /\ o.kind # "reject")
    /\ UNCHANGED <<kc, catalogReply, anyFailed>>

\* UpstreamSettles with continuations that run in the order of their calls
UpstreamSettlesInOrder(i, o) ==
    /\ inv[i].pc = "awaiting"
    /\ \A j \in DOMAIN inv : j < i => inv[j].pc # "awaiting"
    /\ cluster' = IF o.kind = "resolve" THEN ApiEffect(LastCall(i), cluster) ELSE cluster
    /\ inv' = [inv EXCEPT ![i] =
                  Stepped([inv[i] EXCEPT !.outcome = o],
                          CallToolHandlerSettled(inv[i].request, kc, o))]
    /\ UNCHANGED <<serving, kc, catalogReply, anyFailed>>

\* the upstream call of slot i settles with outcome o; the handler runs to
\* its return
UpstreamSettles(i, o) ==
    /\ inv[i].pc = "awaiting"
    /\ cluster' = IF o.kind = "resolve" THEN ApiEffect(LastCall(i), cluster) ELSE cluster
    /\ inv' = [inv EXCEPT ![i] =
                  Stepped([inv[i] EXCEPT !.outcome = o],
                          CallToolHandlerSettled(inv[i].request, kc, o))]
    /\ UNCHANGED <<serving, kc, catalogReply, anyFailed>>

\* the envelope of slot i is sent to the caller; the slot is free again
Respond(i) ==
    /\ inv[i].pc = "done"
    /\ anyFailed' = (anyFailed \/ IsError(inv[i].result))
    /\ inv' = [inv EXCEPT ![i] = IdleSlot]
    /\ UNCHANGED <<serving, kc, cluster, catalogReply>>

Settle(i, errs, shapes) ==
    /\ inv[i].pc = "awaiting"
    /\ \E o \in UpstreamOutcomes(LastCall(i), cluster, errs, shapes) : UpstreamSettles(i, o)

Next ==
    \/ ListTools
    \/ \E i \in Slots, request \in Requests : CallTool(i, request)
    \/ \E i \in Slots : Settle(i, AllErrors, AllShapes)
    \/ \E i \in Slots : Respond(i)

Spec == Init /\ [][Next]_vars

\* the upstream client settles every call (it has its own deadline) and the
\* event loop runs every ready continuation
FairSpec ==
    /\ Spec
    /\ \A i \in Slots : WF_vars(Settle(i, AllErrors, AllShapes))
    /\ \A i \in Slots : WF_vars(Respond(i))

ConcNext ==
    \/ \E i \in ConcSlots, request \in ConcRequests : CallTool(i, request)
    \/ \E i \in ConcSlots : Settle(i, ConcErrors, ConcShapes)
    \/ \E i \in ConcSlots : Respond(i)

ConcSpec == ConcInit /\ [][ConcNext]_vars

(***************************************************************************)
(* The projection specification: the list tools against list responses of  *)
(* every content.  The items of a response are raw objects as the API      *)
(* server may return them, complete or with parts missing.                 *)
(***************************************************************************)
PodNoStatus == O([kind |-> S("Pod"), metadata |-> Meta("db", "default")])
PodBare == O([kind |-> S("Pod")])
RawPods == {PodWeb, PodProd, PodNoStatus, PodBare}

SvcBare == O([kind |-> S("Service")])
RawServices == {SvcWeb, SvcBare}

DeployBare == O([kind |-> S("Deployment")])
RawDeployments == {DeployWeb, DeployBare}

NsBare == O([kind |-> S("Namespace")])
RawNamespaces == {NsDefault, NsBare}

\* CmWeb with other values under the same keys
CmWebRotated ==
    O([kind |-> S("ConfigMap"), metadata |-> Meta("web", "prod"),
       data |-> O([url |-> S("http://db2"), password |-> S("s3cret")])])
CmUrlOnly ==
    O([kind |-> S("ConfigMap"), metadata |-> Meta("web", "prod"),
       data |-> O([url |-> S("http://db")])])
CmEmptyData ==
    O([kind |-> S("ConfigMap"), metadata |-> Meta("web", "prod"), data |-> EmptyObj])
CmNoData == O([kind |-> S("ConfigMap"), metadata |-> Meta("web", "prod")])
RawConfigMaps == {CmWeb, CmWebRotated, CmUrlOnly, CmEmptyData, CmNoData}

Condition(type, status) == O([type |-> S(type), status |-> S(status)])

\* the condition lists of a node's status
ConditionLists ==
    {<<>>,
     <<Condition("Ready", "True")>>,
     <<Condition("Ready", "False")>>,
     <<Condition("MemoryPressure", "False"), Condition("Ready", "True")>>,
     <<Condition("Ready", "False"), Condition("Ready", "True")>>,
     <<Condition("Ready", "True"), Condition("Ready", "Unknown")>>}

NodeWith(conditions) ==
    O([kind |-> S("Node"),
       metadata |-> O([name |-> S("worker-1"),
                       labels |-> O([k \in {"node-role.kubernetes.io/worker"} |-> S("")])]),
       status |-> O([conditions |-> A(conditions)])])
NodeNoConditions ==
    O([kind |-> S("Node"), metadata |-> O([name |-> S("worker-2")]), status |-> EmptyObj])
RawNodes == {NodeWith(c) : c \in ConditionLists} \cup {NodeNoConditions}

\* the raw objects a list method may return
RawObjects(method) ==
    CASE method = "listNamespacedPod" -> RawPods
      [] method = "listNamespacedService" -> RawServices
      [] method = "listNamespacedDeployment" -> RawDeployments
      [] method = "listNamespace" -> RawNamespaces
      [] method = "listNode" -> RawNodes
      [] method = "listNamespacedConfigMap" -> RawConfigMaps
      [] OTHER -> {}

\* the sequences of at most MaxItems objects of pool
ItemSeqs(pool) == UNION {[1..n -> pool] : n \in 0..MaxItems}

\* a list as the 0.x client returns it, as the 1.x client returns it, and a
\* list body whose items are missing
WrappedList(q) == O([response |-> EmptyObj, body |-> O([kind |-> S("List"), items |-> A(q)])])
DirectList(q) == O([kind |-> S("List"), items |-> A(q)])
ListNoItems == O([response |-> EmptyObj, body |-> O([kind |-> S("List")])])

ListResponses(method) ==
    {WrappedList(q) : q \in ItemSeqs(RawObjects(method))}
    \cup {DirectList(q) : q \in ItemSeqs(RawObjects(method))}
    \cup {ListNoItems}

ListTools6 ==
    {"list_pods", "list_services", "list_deployments", "list_namespaces",
     "list_nodes", "list_configmaps"}

ProjRequests ==
    {[name |-> n, arguments |-> a] : n \in ListTools6, a \in {NoArgs, Bag(Undefined, "prod")}}

\* the list call of slot i resolves with a list response
SettleList(i) ==
    /\ inv[i].pc = "awaiting"
    /\ \E r \in ListResponses(LastCall(i).method) : UpstreamSettles(i, Resolved(r))

ProjNext ==
    \/ \E i \in Slots, request \in ProjRequests : CallTool(i, request)
    \/ \E i \in Slots : SettleList(i)
    \/ \E i \in Slots : Settle(i, ConcErrors, {"none"})
    \/ \E i \in Slots : Respond(i)

ProjSpec == Init /\ [][ProjNext]_vars

(***************************************************************************)
(* Properties.                                                             *)
(***************************************************************************)
Range(q) == {q[j] : j \in 1..Len(q)}

\* the tools whose name argument is required
NameRequired ==
    {"describe_pod", "describe_service", "describe_deployment",
     "describe_configmap", "describe_node", "get_pod_logs"}

\* the names of the catalog
CatalogNames == {ListToolsHandler[j].name : j \in 1..Len(ListToolsHandler)}

\* the text of the first content entry of the result of slot i
ResultText(i) == inv[i].result.content[1].text

\* the name argument of the request of slot i is absent or empty
NameMissing(i) ==
    \/ ~inv[i].request.arguments.present
    \/ inv[i].request.arguments.name \in {Undefined, ""}

\* C1: an invocation of describe_pod, describe_service, describe_deployment,
\* describe_configmap, describe_node or get_pod_logs whose name is absent or
\* empty (or whose argument bag is absent) is answered with a failure
\* envelope saying the name is required, and has made no upstream call.
C1_MissingNameFails ==
    \A i \in DOMAIN inv :
        (inv[i].pc # "idle" /\ inv[i].request.name \in NameRequired /\ NameMissing(i))
        => /\ inv[i].pc = "done"
           /\ IsError(inv[i].result)
           /\ Len(inv[i].result.content) = 1
           /\ Contains(ResultText(i), <<" name is required">>)
           /\ inv[i].calls = <<>>

C1_Witness ==
    \E i \in DOMAIN inv :
        /\ inv[i].pc = "done"
        /\ inv[i].request.name = "describe_node"
        /\ inv[i].request.arguments.present
        /\ inv[i].request.arguments.name = ""
        /\ IsError(inv[i].result)

\* C2: an invocation of a name outside the catalog is answered with a failure
\* envelope whose text contains "Unknown tool: <name>", makes no upstream
\* call, and lets no exception escape to the transport.
C2_UnknownTool ==
    \A i \in DOMAIN inv :
        (inv[i].pc # "idle" /\ inv[i].request.name \notin CatalogNames)
        => /\ inv[i].pc = "done"
           /\ IsError(inv[i].result)
           /\ Contains(ResultText(i), <<"Unknown tool: ", inv[i].request.name>>)
           /\ inv[i].calls = <<>>

C2_Witness ==
    \E i \in DOMAIN inv :
        /\ inv[i].pc = "done"
        /\ inv[i].request.name = "LIST_PODS"
        /\ IsError(inv[i].result)

\* C3: when the upstream call of an invocation rejects, the invocation is
\* answered with isError true and exactly one content entry whose text is a
\* non-empty string; nothing escapes as an uncaught exception.
C3_UpstreamFailureIsFailure ==
    \A i \in DOMAIN inv :
        inv[i].outcome.kind = "reject"
        => /\ inv[i].pc = "done"
           /\ IsError(inv[i].result)
           /\ Len(inv[i].result.content) = 1
           /\ inv[i].result.content[1].type = "text"
           /\ NonEmptyString(ResultText(i))

C3_Witness ==
    \E i \in DOMAIN inv :
        /\ inv[i].pc = "done"
        /\ inv[i].request.name = "describe_pod"
        /\ inv[i].outcome = Rejected(ErrNoMessage)
        /\ IsError(inv[i].result)

\* the envelope a newly started server returns for a request whose upstream
\* call (when it makes one) settles with outcome o
Answer(request, k, o) ==
    LET first == CallToolHandler(request)
    IN  IF first.kind = "return" THEN first.env
        ELSE CallToolHandlerSettled(request, k, o).env

\* some invocation has ended in a failure envelope
FailureSeen ==
    anyFailed \/ \E i \in DOMAIN inv : inv[i].pc = "done" /\ IsError(inv[i].result)

\* C4: once some invocation has ended in a failure, the server still serves:
\* a catalog query can be made and its answer is the 13 descriptors, every
\* answered invocation has the envelope a newly started server gives to its
\* request and upstream outcome, and no step stops the server or changes
\* its configuration.
C4_ServesAfterFailure ==
    /\ [](FailureSeen =>
            /\ serving
            /\ ENABLED ListTools
            /\ catalogReply # <<>> =>
                  (catalogReply = ListToolsHandler /\ Len(catalogReply) = 13)
            /\ \A i \in DOMAIN inv :
                  /\ inv[i].pc \in {"idle", "awaiting", "done"}
                  /\ inv[i].pc = "done" =>
                        inv[i].result = Answer(inv[i].request, kc, inv[i].outcome))
    /\ [][FailureSeen => (serving' /\ kc' = kc)]_vars

C4_Witness ==
    /\ anyFailed
    /\ catalogReply # <<>>
    /\ \E i \in DOMAIN inv :
          /\ inv[i].pc = "done"
          /\ inv[i].request.name = "list_pods"
          /\ ~IsError(inv[i].result)

\* C5: an invocation makes at most one upstream call: a rejected call is not
\* followed by a second one, and an invocation answered with a success has
\* made exactly one.
C5_AtMostOneUpstreamCall ==
    \A i \in DOMAIN inv :
        /\ Len(inv[i].calls) <= 1
        /\ inv[i].outcome.kind = "reject" =>
              (inv[i].pc = "done" /\ Len(inv[i].calls) = 1)
        /\ (inv[i].pc = "done" /\ ~IsError(inv[i].result)) => Len(inv[i].calls) = 1

C5_Witness ==
    \E i \in DOMAIN inv :
        /\ inv[i].pc = "done"
        /\ inv[i].request.name = "get_cluster_info"
        /\ inv[i].outcome.kind = "reject"
        /\ Len(inv[i].calls) = 1

\* the stage sequences of an answered invocation
FullRuns ==
    {<<"Resolve", "Envelope">>,
     <<"Resolve", "Validate", "Envelope">>,
     <<"Resolve", "Validate", "Invoke", "Envelope">>,
     <<"Resolve", "Validate", "Invoke", "Project", "Envelope">>}

StagesInOrder(i) ==
    LET st == inv[i].stages
        args == inv[i].request.arguments
    IN  /\ inv[i].pc \in {"idle", "awaiting", "done"}
        /\ inv[i].pc = "idle" => st = <<>>
        /\ inv[i].pc = "awaiting" => st = <<"Resolve", "Validate", "Invoke">>
        /\ inv[i].pc = "done" => (st \in FullRuns /\ Len(inv[i].result.content) = 1)
        \* the upstream call is the Invoke stage
        /\ Len(inv[i].calls) = Cardinality({j \in 1..Len(st) : st[j] = "Invoke"})
        \* Invoke only after Resolve and Validate succeeded
        /\ "Invoke" \in Range(st) =>
              /\ inv[i].request.name \in CatalogNames
              /\ inv[i].request.name \in NameRequired =>
                    (args.present /\ args.name \notin {Undefined, ""})
        \* Project only after Invoke succeeded
        /\ "Project" \in Range(st) => inv[i].outcome.kind = "resolve"
        \* a stage that fails goes to Envelope with a failure
        /\ (inv[i].pc = "done" /\ "Project" \notin Range(st)) => IsError(inv[i].result)

\* C6: an invocation goes through Resolve, Validate, Invoke, Project and
\* Envelope in that order and visits no stage twice; the upstream call is
\* made only after the name resolved and the arguments validated, Project
\* only after the call resolved, a failing stage goes straight to Envelope
\* with a failure, and every invocation reaches Envelope with one result.
C6_LinearStages ==
    /\ [](\A i \in DOMAIN inv : StagesInOrder(i))
    /\ \A i \in Slots : (inv[i].pc = "awaiting") ~> (inv[i].pc = "done")

C6_Witness ==
    \E i \in DOMAIN inv :
        /\ inv[i].pc = "done"
        /\ inv[i].request.name = "describe_service"
        /\ inv[i].stages = <<"Resolve", "Validate", "Invoke", "Project", "Envelope">>

\* a step that changes one slot leaves the others as they were
OthersUntouched ==
    \A i \in DOMAIN inv :
        inv'[i] # inv[i] => \A j \in DOMAIN inv \ {i} : inv'[j] = inv[j]

\* C7: with several invocations in flight, each answered invocation has the
\* envelope its own request and its own upstream outcome determine, an
\* invocation waiting for its upstream call can complete whatever the others
\* are doing, and a step of one invocation changes no other.
C7_Independent ==
    /\ [](\A i \in DOMAIN inv :
            /\ inv[i].pc = "done" =>
                  inv[i].result = Answer(inv[i].request, kc, inv[i].outcome)
            /\ inv[i].pc = "awaiting" => ENABLED Settle(i, ConcErrors, ConcShapes))
    /\ [][OthersUntouched]_vars

C7_Witness ==
    /\ Cardinality(DOMAIN inv) >= 2
    /\ inv[1].pc = "awaiting"
    /\ inv[2].pc = "done"
    /\ inv[2].outcome.kind = "reject"
    /\ inv[2].request = inv[1].request

\* C8: no invocation changes the cluster: every upstream method called is a
\* read (list, read or get metadata), and no step changes the cluster state.
C8_ReadOnly ==
    /\ [](\A i \in DOMAIN inv : \A j \in 1..Len(inv[i].calls) :
              inv[i].calls[j].method \in ReadOnlyMethods)
    /\ [][cluster' = cluster]_vars

C8_Witness ==
    \E i \in DOMAIN inv :
        /\ inv[i].pc = "done"
        /\ inv[i].request.name = "describe_pod"
        /\ inv[i].outcome.kind = "resolve"
        /\ ~IsError(inv[i].result)
        /\ cluster # <<>>

\* the name is one the switch of the dispatcher has a case for
Dispatched(name) ==
    CallToolSwitch([name |-> name, arguments |-> NoArgs]).kind # "throw"

\* C9: the catalog query returns 13 descriptors with distinct names, always
\* the same sequence; the required fields are {name} for the six tools that
\* take a name and none for the other seven; and the names of the catalog
\* are the names the dispatcher resolves.
C9_Catalog ==
    /\ [](catalogReply # <<>> =>
            /\ Len(catalogReply) = 13
            /\ \A a, b \in 1..Len(catalogReply) :
                  catalogReply[a].name = catalogReply[b].name => a = b
            /\ \A a \in 1..Len(catalogReply) :
                  Range(catalogReply[a].inputSchema.required) =
                      (IF catalogReply[a].name \in NameRequired THEN {"name"} ELSE {})
            /\ NameRequired \subseteq {catalogReply[a].name : a \in 1..Len(catalogReply)}
            /\ \A n \in NameInputs :
                  (n \in {catalogReply[a].name : a \in 1..Len(catalogReply)})
                      <=> Dispatched(n)
            /\ \A i \in DOMAIN inv :
                  inv[i].pc # "idle" =>
                      ((inv[i].request.name \in
                            {catalogReply[a].name : a \in 1..Len(catalogReply)})
                          <=> "Validate" \in Range(inv[i].stages)))
    /\ [][catalogReply # <<>> => catalogReply' = catalogReply]_vars

C9_Witness ==
    /\ catalogReply # <<>>
    /\ \E i \in DOMAIN inv :
          /\ inv[i].pc = "done"
          /\ inv[i].request.name = "delete_pod"

\* the tools that take a namespace
NamespacedTools ==
    {"list_pods", "list_services", "list_deployments", "list_configmaps",
     "describe_pod", "describe_service", "describe_deployment",
     "describe_configmap", "get_pod_logs"}

\* the namespace the upstream call of slot i was given
PassedNamespace(i) ==
    IF inv[i].request.name \in {"list_pods", "list_services", "list_deployments",
                                "list_configmaps"}
    THEN inv[i].calls[1].args[1]
    ELSE inv[i].calls[1].args[2]

\* the namespace argument of the request of slot i
GivenNamespace(i) == Arg(inv[i].request.arguments, "namespace")

\* C10 as stated: without a namespace argument the upstream call gets
\* "default", and a supplied namespace is passed unchanged.
C10_NamespaceAsStated ==
    \A i \in DOMAIN inv :
        (inv[i].request.name \in NamespacedTools /\ inv[i].calls # <<>>)
        => PassedNamespace(i) =
              (IF GivenNamespace(i) = Undefined THEN "default" ELSE GivenNamespace(i))

\* C10: for a namespaced tool, the upstream call gets "default" when the
\* namespace argument is absent or the empty string, and gets the supplied
\* namespace unchanged when it is a non-empty string.
C10_NamespaceDefault ==
    \A i \in DOMAIN inv :
        (inv[i].request.name \in NamespacedTools /\ inv[i].calls # <<>>)
        => PassedNamespace(i) =
              (IF GivenNamespace(i) \in {Undefined, ""} THEN "default"
               ELSE GivenNamespace(i))

C10_Witness ==
    \E i \in DOMAIN inv :
        /\ inv[i].request.name = "list_services"
        /\ inv[i].calls # <<>>
        /\ inv[i].request.arguments.present
        /\ inv[i].request.arguments.namespace = ""
        /\ PassedNamespace(i) = "default"

\* the list tools that declare a labelSelector field
SelectorTools ==
    {"list_pods", "list_services", "list_deployments", "list_configmaps", "list_nodes"}

\* the label selector the upstream call of slot i was given: the argument
\* after (namespace, pretty) of a namespaced list, after (pretty) of listNode
PassedSelector(i) ==
    LET args == inv[i].calls[1].args
        at == IF inv[i].request.name = "list_nodes" THEN 2 ELSE 3
    IN  IF Len(args) >= at THEN args[at] ELSE Undefined

\* C11: for list_pods, list_services, list_deployments, list_configmaps and
\* list_nodes, the labelSelector of the arguments is the label selector the
\* upstream list call is given, and none is given when it is omitted.
C11_SelectorPassed ==
    \A i \in DOMAIN inv :
        (inv[i].request.name \in SelectorTools /\ inv[i].calls # <<>>)
        => PassedSelector(i) = Arg(inv[i].request.arguments, "labelSelector")

\* slot i has been answered after its call resolved with a response that
\* carries the collection as body.items, the shape of the 0.x client
AnsweredWrapped(i) ==
    /\ inv[i].pc = "done"
    /\ inv[i].outcome.kind = "resolve"
    /\ Prop(Prop(inv[i].outcome.value, "body"), "items").t = "arr"

\* the upstream collection of such a slot
UpstreamItems(i) == inv[i].outcome.value.o.body.o.items.a

\* the envelope is a success whose text is one JSON document
IsJsonSuccess(env) ==
    /\ ~IsError(env)
    /\ Len(env.content) = 1
    /\ env.content[1].text.t = "str"
    /\ Len(env.content[1].text.parts) = 1
    /\ "json" \in DOMAIN env.content[1].text.parts[1]

\* the document of such an envelope
Payload(env) == env.content[1].text.parts[1].json

\* v.a?.b
At(v, path) == OptProp(Prop(v, path[1]), path[2])

PodFields == {"name", "namespace", "status", "ip", "node", "creationTimestamp"}

\* where each projected field of a pod is read
PodSource ==
    [name |-> <<"metadata", "name">>, namespace |-> <<"metadata", "namespace">>,
     status |-> <<"status", "phase">>, ip |-> <<"status", "podIP">>,
     node |-> <<"spec", "nodeName">>,
     creationTimestamp |-> <<"metadata", "creationTimestamp">>]

\* C12: when list_pods is answered for an upstream collection of N pods
\* (N >= 0, delivered as body.items), the result is a success whose payload
\* is a sequence of N objects; the j-th has no field outside name,
\* namespace, status, ip, node, creationTimestamp, each of its fields is
\* the corresponding field of the j-th pod (absent when the pod has none),
\* and it is the object the j-th pod alone would give.  For N = 0 the
\* payload is the empty sequence.
C12_PodProjection ==
    \A i \in DOMAIN inv :
        (AnsweredWrapped(i) /\ inv[i].request.name = "list_pods") =>
            LET items == UpstreamItems(i)
                payload == Payload(inv[i].result)
            IN  /\ IsJsonSuccess(inv[i].result)
                /\ payload.t = "arr"
                /\ Len(payload.a) = Len(items)
                /\ \A j \in 1..Len(items) :
                      /\ payload.a[j].t = "obj"
                      /\ DOMAIN payload.a[j].o \subseteq PodFields
                      /\ \A f \in PodFields :
                            Prop(payload.a[j], f) = At(items[j], PodSource[f])
                      /\ payload.a[j] =
                            Payload(Answer(inv[i].request, kc,
                                           Resolved(WrappedList(<<items[j]>>)))).a[1]

\* list_pods has been answered for two different pods, the second of them
\* without status and spec
C12_Witness ==
    \E i \in DOMAIN inv :
        /\ AnsweredWrapped(i)
        /\ inv[i].request.name = "list_pods"
        /\ Len(UpstreamItems(i)) >= 2
        /\ UpstreamItems(i)[1] = PodWeb
        /\ UpstreamItems(i)[2] = PodNoStatus
        /\ IsJsonSuccess(inv[i].result)

\* the condition list has an entry {type: "Ready", status: "True"}
HasReadyTrue(conditions) ==
    /\ conditions.t = "arr"
    /\ \E h \in 1..Len(conditions.a) : conditions.a[h] = Condition("Ready", "True")

\* C13: when list_nodes is answered, the status of each projected node is
\* "Ready" if the node's condition list contains an entry of type "Ready"
\* with status "True", whatever its length and order and however many
\* "Ready" entries it has, and "NotReady" if it contains none or is absent.
C13_Readiness ==
    \A i \in DOMAIN inv :
        (AnsweredWrapped(i) /\ inv[i].request.name = "list_nodes"
            /\ IsJsonSuccess(inv[i].result)) =>
            \A j \in 1..Len(UpstreamItems(i)) :
                Prop(Payload(inv[i].result).a[j], "status") =
                    IF HasReadyTrue(At(UpstreamItems(i)[j], <<"status", "conditions">>))
                    THEN S("Ready") ELSE S("NotReady")

\* the key set of a configmap's data map; empty when the map is absent
KeySet(cm) == IF Prop(cm, "data").t = "obj" THEN DOMAIN Prop(cm, "data").o ELSE {}

\* what two configmaps that differ in their data values only agree on
CmView(cm) ==
    [name |-> At(cm, <<"metadata", "name">>),
     namespace |-> At(cm, <<"metadata", "namespace">>),
     creationTimestamp |-> At(cm, <<"metadata", "creationTimestamp">>),
     keys |-> KeySet(cm)]

\* C14: when list_configmaps is answered, the dataKeys of every item are
\* exactly the keys of the configmap's data map (none for an empty or absent
\* map), and every upstream collection that agrees with the one returned on
\* each configmap's name, namespace, creationTimestamp and key set gives the
\* same result, whatever its data values are.
C14_ValuesHidden ==
    \A i \in DOMAIN inv :
        (AnsweredWrapped(i) /\ inv[i].request.name = "list_configmaps") =>
            LET items == UpstreamItems(i)
                payload == Payload(inv[i].result)
            IN  /\ IsJsonSuccess(inv[i].result)
                /\ payload.t = "arr"
                /\ Len(payload.a) = Len(items)
                /\ \A j \in 1..Len(items) :
                      LET dataKeys == Prop(payload.a[j], "dataKeys")
                      IN  /\ dataKeys.t = "arr"
                          /\ Range(dataKeys.a) = {S(key) : key \in KeySet(items[j])}
                          /\ Len(dataKeys.a) = Cardinality(KeySet(items[j]))
                /\ \A other \in ItemSeqs(RawConfigMaps) :
                      (/\ Len(other) = Len(items)
                       /\ \A j \in 1..Len(items) : CmView(other[j]) = CmView(items[j]))
                      => Answer(inv[i].request, kc, Resolved(WrappedList(other)))
                            = inv[i].result

\* list_configmaps has been answered for a configmap with two values, for
\* which a configmap with other values under the same keys exists, and a
\* configmap without data
C14_Witness ==
    \E i \in DOMAIN inv :
        /\ AnsweredWrapped(i)
        /\ inv[i].request.name = "list_configmaps"
        /\ Len(UpstreamItems(i)) >= 2
        /\ UpstreamItems(i)[1] = CmWeb
        /\ UpstreamItems(i)[2] = CmNoData
        /\ CmView(CmWebRotated) = CmView(CmWeb) /\ CmWebRotated # CmWeb
        /\ IsJsonSuccess(inv[i].result)

\* C15: when get_pod_logs is called with a name and without container and
\* tailLines and the upstream log read succeeds, the result is a success
\* whose single content text is the log string the API server returned,
\* unchanged.
C15_LogsPassThrough ==
    \A i \in DOMAIN inv :
        (/\ inv[i].pc = "done"
         /\ inv[i].request.name = "get_pod_logs"
         /\ inv[i].outcome.kind = "resolve"
         /\ ~Nullish(inv[i].outcome.value)
         /\ Arg(inv[i].request.arguments, "container") = Undefined
         /\ Arg(inv[i].request.arguments, "tailLines") = Undefined)
        => /\ ~IsError(inv[i].result)
           /\ Len(inv[i].result.content) = 1
           /\ ResultText(i) = ApiObject(inv[i].calls[1], cluster)

\* the string v contains the text m
ContainsText(v, m) ==
    /\ v.t = "str"
    /\ \E k \in 0..(Len(v.parts) - Len(m)) : SubSeq(v.parts, k + 1, k + Len(m)) = m

\* C16: for every operation, when the upstream call fails with an error
\* that carries a message m, the invocation is answered with a failure
\* whose message contains m.
C16_UpstreamMessageKept ==
    \A i \in DOMAIN inv :
        (inv[i].pc = "done" /\ inv[i].outcome.kind = "reject"
            /\ inv[i].outcome.err.instanceOfError)
        => /\ IsError(inv[i].result)
           /\ ContainsText(ResultText(i), inv[i].outcome.err.message)

\* the closing sentence of the connection message of listPods
RemediationHint == "Please check your Kubernetes configuration and network connectivity."

\* C17: for every operation, when the upstream call fails because the
\* cluster cannot be reached, the invocation is answered with a failure
\* whose message carries the remediation hint.
C17_RemediationHint ==
    \A i \in DOMAIN inv :
        (inv[i].pc = "done" /\ inv[i].outcome = Rejected(ErrConnRefused))
        => /\ IsError(inv[i].result)
           /\ Contains(ResultText(i), <<RemediationHint>>)

ClusterInfoFields == {"currentContext", "clusterInfo", "apiResources", "groupVersion"}

\* C18: get_cluster_info is answered either with a success whose payload
\* has all four of currentContext, clusterInfo, apiResources and
\* groupVersion, or with a failure; when the upstream call fails the answer
\* is a failure that does not depend on the KubeConfig (it carries no
\* context or cluster data).
C18_AllOrNothing ==
    \A i \in DOMAIN inv :
        (inv[i].pc = "done" /\ inv[i].request.name = "get_cluster_info") =>
            /\ \/ IsError(inv[i].result)
               \/ /\ IsJsonSuccess(inv[i].result)
                  /\ Payload(inv[i].result).t = "obj"
                  /\ ClusterInfoFields \subseteq DOMAIN Payload(inv[i].result).o
            /\ inv[i].outcome.kind = "reject" =>
                  /\ IsError(inv[i].result)
                  /\ \A k \in KubeConfigs :
                        Answer(inv[i].request, k, inv[i].outcome) = inv[i].result

\* C19: for every list operation, when the upstream call resolves with a
\* response, whatever the shape of the response and of its items, the
\* invocation is answered with a success and never with a failure; when the
\* response carries N items, the payload has N objects, and a field whose
\* source is missing in an item is absent or null in its projection.
C19_ShapeNeverFails ==
    \A i \in DOMAIN inv :
        (/\ inv[i].pc = "done"
         /\ inv[i].request.name \in ListTools6
         /\ inv[i].outcome.kind = "resolve"
         /\ ~Nullish(inv[i].outcome.value))
        => /\ ~IsError(inv[i].result)
           /\ AnsweredWrapped(i) =>
                 /\ IsJsonSuccess(inv[i].result)
                 /\ Payload(inv[i].result).t = "arr"
                 /\ Len(Payload(inv[i].result).a) = Len(UpstreamItems(i))
                 /\ \A j \in 1..Len(UpstreamItems(i)) :
                       Prop(UpstreamItems(i)[j], "metadata") = U
                       => Prop(Payload(inv[i].result).a[j], "name") \in {U, Null}

NamespaceFields == {"name", "status", "creationTimestamp"}

NamespaceSource ==
    [name |-> <<"metadata", "name">>, status |-> <<"status", "phase">>,
     creationTimestamp |-> <<"metadata", "creationTimestamp">>]

\* the collection a response carries as body.items or as items
CarriedItems(response) ==
    IF Prop(Prop(response, "body"), "items").t = "arr"
    THEN Prop(Prop(response, "body"), "items")
    ELSE Prop(response, "items")

\* C20: list_namespaces is answered with isError true exactly when its
\* upstream call throws or resolves with no response; every other answer
\* is a JSON sequence of objects with no field outside name, status and
\* creationTimestamp, and when the response carries a collection as
\* body.items or as items the sequence has one projection per namespace in
\* upstream order.
C20_NamespacesSequence ==
    \A i \in DOMAIN inv :
        (inv[i].pc = "done" /\ inv[i].request.name = "list_namespaces") =>
            LET payload == Payload(inv[i].result)
                items == CarriedItems(inv[i].outcome.value)
            IN  /\ IsError(inv[i].result)
                      <=> (inv[i].outcome.kind = "reject" \/ Nullish(inv[i].outcome.value))
                /\ ~IsError(inv[i].result) =>
                      /\ IsJsonSuccess(inv[i].result)
                      /\ payload.t = "arr"
                      /\ \A j \in 1..Len(payload.a) :
                            /\ payload.a[j].t = "obj"
                            /\ DOMAIN payload.a[j].o \subseteq NamespaceFields
                      /\ items.t = "arr" =>
                            /\ Len(payload.a) = Len(items.a)
                            /\ \A j \in 1..Len(items.a), f \in NamespaceFields :
                                  Prop(payload.a[j], f) = At(items.a[j], NamespaceSource[f])

====
